---- MODULE Spec2Model ----
(***************************************************************************)
(* Catch::Session and the run loop of include/catch_session.hpp.           *)
(*                                                                         *)
(* The process-wide registries (test cases, reporters, listeners, startup  *)
(* exceptions), the Session's members (m_configData, m_config) and the     *)
(* position of the one thread of control inside runTests are the state.    *)
(* Strings are sequences of one-character strings, so that the filename    *)
(* tagger's find_last_of / substr are computed and not assumed.            *)
(* std::size_t counters are 64 bits wide, kept as four 16-bit limbs        *)
(* (least significant first); int is 32 bits, two's complement.            *)
(***************************************************************************)
EXTENDS Integers, Sequences, FiniteSets, TLC

\* ------------------------------------------------------------------ bounds

\* Number of test cases in the registry.
NumTests == 3

\* Number of public Session operations called in one behaviour.
MaxCalls == 2

\* ------------------------------------------------------- integers of the code

\* const int Session::MaxExitCode = 255;
MaxExitCode == 255

\* One limb of a std::size_t holds 16 bits.
Limb == 256 * 256

U64Zero == <<0, 0, 0, 0>>

\* The std::size_t whose value is n, for 0 <= n < 2^31.
U64(n) == <<n % Limb, n \div Limb, 0, 0>>

\* 2^31 as std::size_t: the first value that an int cannot hold.
U64TwoTo31 == <<0, Limb \div 2, 0, 0>>

\* a + b on std::size_t (unsigned, modulo 2^64).
U64Add(a, b) ==
    LET s1 == a[1] + b[1]
        s2 == a[2] + b[2] + (s1 \div Limb)
        s3 == a[3] + b[3] + (s2 \div Limb)
        s4 == a[4] + b[4] + (s3 \div Limb)
    IN  <<s1 % Limb, s2 % Limb, s3 % Limb, s4 % Limb>>

\* static_cast<int>( std::size_t ): the low 32 bits, read as two's complement.
StaticCastInt(u) ==
    IF u[2] >= Limb \div 2
        THEN (u[2] - Limb) * Limb + u[1]
        ELSE u[2] * Limb + u[1]

\* (std::min)( a, b ) on int: b when b < a, else a.
StdMin(a, b) == IF b < a THEN b ELSE a

\* ------------------------------------------------------------------- Totals

\* Counts / Totals of catch_totals.hpp: assertion and test-case counters.
MakeTotals(aPassed, aFailed, tPassed, tFailed) ==
    [assertions |-> [passed |-> aPassed, failed |-> aFailed],
     testCases  |-> [passed |-> tPassed, failed |-> tFailed]]

TotalsZero == MakeTotals(U64Zero, U64Zero, U64Zero, U64Zero)

\* Totals::operator+= : the component-wise sum.
TotalsAdd(a, b) ==
    [assertions |-> [passed |-> U64Add(a.assertions.passed, b.assertions.passed),
                     failed |-> U64Add(a.assertions.failed, b.assertions.failed)],
     testCases  |-> [passed |-> U64Add(a.testCases.passed, b.testCases.passed),
                     failed |-> U64Add(a.testCases.failed, b.testCases.failed)]]

\* What running one test case can report back.
PassingRun == MakeTotals(U64(3), U64Zero, U64(1), U64Zero)
FailingRun == MakeTotals(U64(1), U64(200), U64Zero, U64(1))
HugeRun    == MakeTotals(U64Zero, U64TwoTo31, U64Zero, U64(1))

\* ------------------------------------------------------------------ TestSpec

\* A pattern tests for one tag, possibly negated (~); a filter is a
\* conjunction of patterns; a TestSpec is a disjunction of filters.
TagPattern(tag) == [excl |-> FALSE, tag |-> tag]
ExcludedTagPattern(tag) == [excl |-> TRUE, tag |-> tag]

HiddenTag == <<".">>
FastTag == <<"f">>

SeqRange(s) == {s[k] : k \in 1..Len(s)}

PatternMatches(p, testCase) == (p.tag \in SeqRange(testCase.tags)) # p.excl

FilterMatches(f, testCase) == \A k \in 1..Len(f) : PatternMatches(f[k], testCase)

\* TestSpec::matches
TestSpecMatches(spec, testCase) ==
    \E k \in 1..Len(spec) : FilterMatches(spec[k], testCase)

\* TestSpec::hasFilters
hasFilters(spec) == Len(spec) > 0

\* TestSpecParser( ... ).parse( "~[.]" ).testSpec(): all not hidden tests.
NotHiddenSpec == << <<ExcludedTagPattern(HiddenTag)>> >>

\* matchTest( testCase, testSpec, config )
matchTest(testCase, testSpec) == TestSpecMatches(testSpec, testCase)

\* ---------------------------------------------------------------- test cases

\* A registered TestCase: its tags, the file of its lineInfo, and what
\* invoking its body adds to the run context's Totals.
MakeTestCase(tags, file, body) == [tags |-> tags, file |-> file, body |-> body]

FileInDir   == <<"a", "/", "M", ".", "c">>
FilePlain   == <<"M", ".", "c">>
FileWinPath == <<"b", ".", "d", "\\", "N">>

TestCasePool ==
    { MakeTestCase(<<>>, FileInDir, PassingRun),
      MakeTestCase(<<FastTag>>, FilePlain, FailingRun),
      MakeTestCase(<<HiddenTag>>, FileWinPath, FailingRun),
      MakeTestCase(<<FastTag, HiddenTag>>, FilePlain, PassingRun),
      MakeTestCase(<<>>, FileInDir, HugeRun) }

SmallTestCasePool ==
    { MakeTestCase(<<FastTag>>, FileInDir, FailingRun),
      MakeTestCase(<<HiddenTag>>, FileWinPath, HugeRun) }

\* getAllTestCasesSorted( config ): the registry's list, in its sorted order.
Registries(pool) == [1..NumTests -> pool]

\* The registries whose test cases are all alike.
UniformRegistries(pool) == {[k \in 1..NumTests |-> testCase] : testCase \in pool}

\* std::string::find_last_of( chars ): the last position holding one of
\* chars, 0 for npos (positions count from 1 here).
FindLastOf(str, chars) ==
    LET hits == {k \in 1..Len(str) : str[k] \in chars}
    IN  IF hits = {} THEN 0 ELSE CHOOSE k \in hits : \A h \in hits : h <= k

\* FilenameStem that leaves the extension on.
FilenameStemKeepsExtension(file) ==
    LET lastSlash == FindLastOf(file, {"\\", "/"})
    IN  IF lastSlash # 0 THEN SubSeq(file, lastSlash + 1, Len(file)) ELSE file

\* Lines 91-98: the file name without its directories and its extension.
FilenameStem(file) ==
    LET lastSlash == FindLastOf(file, {"\\", "/"})
        filename  == IF lastSlash # 0
                        THEN SubSeq(file, lastSlash + 1, Len(file))
                        ELSE file
        lastDot   == FindLastOf(filename, {"."})
    IN  IF lastDot # 0 THEN SubSeq(filename, 1, lastDot - 1) ELSE filename

\* setTags( testCase, tags )
setTags(testCase, tags) == [testCase EXCEPT !.tags = tags]

\* One iteration of applyFilenamesAsTags.
TagWithFilename(testCase) ==
    setTags(testCase, Append(testCase.tags, <<"#">> \o FilenameStem(testCase.file)))

\* applyFilenamesAsTags( config ) on the whole registry.
applyFilenamesAsTags(registry) ==
    [k \in 1..Len(registry) |-> TagWithFilename(registry[k])]

\* ----------------------------------------------------------------- reporters

\* CATCH_CONFIG_DEFAULT_REPORTER
DefaultReporter == "console"

\* createReporter without the CATCH_ENFORCE.
createReporterNeverThrows(name, registered) == FALSE

\* createReporter( name, config ): the registry's create() yields nothing for
\* a name that is not registered, and CATCH_ENFORCE then throws.
createReporterThrows(name, registered) == name \notin registered

\* addReporter( existing, additional )
addReporter(existing, additional) == Append(existing, additional)

\* Lines 47-50: the loop over the requested names, from position k on.
RECURSIVE makeReporterFrom(_, _, _, _)
makeReporterFrom(reporter, names, registered, k) ==
    IF k > Len(names)
        THEN [thrown |-> FALSE, reporter |-> reporter]
        ELSE IF createReporterThrows(names[k], registered)
                THEN [thrown |-> TRUE, reporter |-> <<>>]
                ELSE makeReporterFrom(addReporter(reporter, names[k]), names,
                                      registered, k + 1)

\* makeReporter( config ): the requested reporters in request order, the
\* default one when none is requested; thrown when a name is not registered.
makeReporter(reporterNames, registered) ==
    IF reporterNames = <<>>
        THEN IF createReporterThrows(DefaultReporter, registered)
                THEN [thrown |-> TRUE, reporter |-> <<>>]
                ELSE [thrown |-> FALSE, reporter |-> <<DefaultReporter>>]
        ELSE makeReporterFrom(<<>>, reporterNames, registered, 1)

\* addListeners( reporters, config ): every registered listener, appended.
RECURSIVE addListenersFrom(_, _, _)
addListenersFrom(reporters, listeners, k) ==
    IF k > Len(listeners)
        THEN reporters
        ELSE addListenersFrom(addReporter(reporters, listeners[k]), listeners, k + 1)

\* addListeners that puts the listeners in front of the reporters.
addListenersInFront(reporters, listeners) == listeners \o reporters

addListeners(reporters, listeners) == addListenersFrom(reporters, listeners, 1)

\* --------------------------------------------------------------- config data

\* WaitForKeypress::When
WaitNever == 0
WaitBeforeStart == 1
WaitBeforeExit == 2
WaitBeforeStartAndExit == 3

\* ConfigData as the command-line parser leaves it by default.
DefaultConfigData ==
    [showHelp        |-> FALSE,
     libIdentify     |-> FALSE,
     filenamesAsTags |-> FALSE,
     listing         |-> FALSE,
     waitForKeypress |-> WaitNever,
     reporterNames   |-> <<>>,
     testSpec        |-> <<>>,
     name            |-> "tests"]

FilenameTag == <<"#", "M">>

ConfigDatas ==
    { DefaultConfigData,
      [DefaultConfigData EXCEPT !.showHelp = TRUE],
      [DefaultConfigData EXCEPT !.libIdentify = TRUE, !.filenamesAsTags = TRUE,
                                !.listing = TRUE],
      [DefaultConfigData EXCEPT !.filenamesAsTags = TRUE,
                                !.testSpec = << <<TagPattern(FilenameTag)>> >>],
      [DefaultConfigData EXCEPT !.listing = TRUE],
      [DefaultConfigData EXCEPT !.listing = TRUE, !.reporterNames = <<"junit">>],
      [DefaultConfigData EXCEPT !.reporterNames = <<"xml", "console">>,
                                !.name = "suite"],
      [DefaultConfigData EXCEPT !.reporterNames = <<"xml", "junit">>],
      [DefaultConfigData EXCEPT !.testSpec = << <<TagPattern(FastTag)>> >>],
      [DefaultConfigData EXCEPT !.testSpec = << <<TagPattern(HiddenTag)>>,
                                                <<TagPattern(FastTag)>> >>,
                                !.waitForKeypress = WaitBeforeStartAndExit] }

\* The reporters the registry may hold; "junit" is never registered.
ReporterRegistries == { {"console", "xml"}, {"xml"} }

ListenerRegistries == { <<>>, <<"listenerA", "listenerB">> }

\* What list( config ) may count: tests, tags or reporters listed.
ListedCounts == {U64Zero, U64(2), U64(300)}

\* m_config when no Config object is held.
NoConfig == [id |-> 0, data |-> DefaultConfigData, held |-> FALSE]

\* std::make_shared<Config>( m_configData ): a new object, a snapshot of data.
MakeConfig(id, data) == [id |-> id, data |-> data, held |-> TRUE]

\* --------------------------------------------------------------------- state

VARIABLES
    tests,          \* the test-case registry, sorted
    exceptions,     \* the startup exception registry's messages
    reporters,      \* the names the reporter registry can create
    listeners,      \* the registered listeners, in registration order
    alreadyInstantiated,    \* the static flag of Session()
    sessions,       \* how many Session objects are alive
    constructed,    \* how many times Session() has returned normally
    refused,        \* how many times Session() has ended in the internal error
    m_cli,          \* Session::m_cli
    m_configData,   \* Session::m_configData
    m_config,       \* Session::m_config
    configsMade,    \* how many Config objects have been constructed
    pc,             \* "idle", or "loop" inside runTests' for loop
    next,           \* runTests: position of the loop in allTestCases
    totals,         \* runTests: the local Totals
    aborting,       \* what context.aborting() answers
    testSpec,       \* runTests: the effective TestSpec
    reporter,       \* runTests: the reporter composite of the run context
    events,         \* notifications sent during the current call, in order
    call,           \* the public operation in progress or last completed
    calls           \* how many public operations have been called

vars == <<tests, exceptions, reporters, listeners, alreadyInstantiated,
          sessions, constructed, refused, m_cli, m_configData, m_config,
          configsMade, pc, next, totals, aborting, testSpec, reporter, events,
          call, calls>>

registryVars == <<exceptions, reporters, listeners>>
instanceVars == <<alreadyInstantiated, sessions, constructed, refused>>
loopVars == <<next, totals, aborting, testSpec, reporter>>

\* The four states of the Session's lifecycle, in their order.
Unconfigured == "Unconfigured"
CommandLineApplied == "CommandLineApplied"
ConfigBuilt == "ConfigBuilt"
WasExecuted == "Executed"
LifecycleOrder == <<Unconfigured, CommandLineApplied, ConfigBuilt, WasExecuted>>

\* The lifecycle state of a session that holds the Config cfg: `applied` says
\* that a command line has been applied since the config data was last set,
\* and `ran` is the id of the Config with which runTests last returned.
Lifecycle(cfg, applied, ran) ==
    IF cfg.held
        THEN IF cfg.id = ran THEN WasExecuted ELSE ConfigBuilt
        ELSE IF applied THEN CommandLineApplied ELSE Unconfigured

\* The record kept of a public operation: what was called, what it returned,
\* and which steps of it were taken. prev is the record of the operation
\* before it.
NewCallAfter(op, prev) ==
    [op         |-> op,
     returned   |-> FALSE,      \* the operation has returned
     ret        |-> 0,          \* the int it returned
     parse      |-> "none",     \* "none", "ok", "failed"
     startup    |-> FALSE,      \* returned on the startup exceptions
     internal   |-> FALSE,      \* runInternal was entered
     seenHelp   |-> FALSE,      \* showHelp || libIdentify as runInternal read it
     made       |-> 0,          \* Config objects constructed
     tagged     |-> FALSE,      \* applyFilenamesAsTags was applied
     listed     |-> FALSE,      \* list() performed a listing
     ranTests   |-> FALSE,      \* runTests was called
     thrown     |-> FALSE,      \* an exception was thrown in runInternal
     escaped    |-> FALSE,      \* and it left Session::run uncaught
     configWas  |-> m_config,   \* m_config when the operation was called
     dataWas    |-> m_configData,   \* m_configData then
     configsWere |-> configsMade,   \* configsMade then
     testsWere  |-> tests,      \* the registry when the operation was called
     cliWas     |-> m_cli,      \* m_cli then
     applied    |-> prev.applied,   \* a command line is applied (see Lifecycle)
     ran        |-> prev.ran,       \* the Config that was run (see Lifecycle)
     path       |-> <<Lifecycle(m_config, prev.applied, prev.ran)>>]
                                \* the lifecycle states the operation went through

NewCall(op) == NewCallAfter(op, call)

\* Nothing has been called on the session yet.
NoCall == [applied |-> FALSE, ran |-> 0]

\* The operation recorded in c has left the session with the Config cfg.
Moved(c, cfg) ==
    LET state == Lifecycle(cfg, c.applied, c.ran)
    IN  IF state = c.path[Len(c.path)]
            THEN c
            ELSE [c EXCEPT !.path = Append(@, state)]

\* A notification: testGroupStarting / testGroupEnded of the run context,
\* runTest of the run context, skipTest of the reporter. idx is the position
\* of the test case in the sorted list, and abort what context.aborting()
\* answered when the case was reached.
MakeEvent(ev, name, idx, t, abort) ==
    [ev |-> ev, name |-> name, idx |-> idx, totals |-> t, aborting |-> abort,
     groupIndex |-> 0, groupsCount |-> 0]

\* testGroupStarting( name, groupIndex, groupsCount ) and
\* testGroupEnded( name, totals, groupIndex, groupsCount ).
MakeGroupEvent(ev, name, t, groupIndex, groupsCount) ==
    [MakeEvent(ev, name, 0, t, FALSE) EXCEPT !.groupIndex = groupIndex,
                                             !.groupsCount = groupsCount]

TypeOK ==
    /\ pc \in {"idle", "loop"}
    /\ calls \in 0..MaxCalls
    /\ next \in 1..(NumTests + 1)
    /\ aborting \in BOOLEAN
    /\ Len(tests) = NumTests

\* The parser that makeCommandLineParser( m_configData ) returns, and one
\* that the caller may install through cli( newParser ).
DefaultParser == "makeCommandLineParser"
CustomParser == "newParser"

\* The state in which `made` Session objects have been constructed (0 or 1)
\* and that one is alive.
InitWith(registries, listenerSets, datas, called, made) ==
    /\ tests \in registries
    /\ exceptions \in {<<>>, <<"startup error">>}
    /\ reporters \in ReporterRegistries
    /\ listeners \in listenerSets
    /\ alreadyInstantiated = (made > 0)
    /\ sessions = made
    /\ constructed = made
    /\ refused = 0
    /\ m_cli = DefaultParser
    /\ m_configData \in datas
    /\ m_config = NoConfig
    /\ configsMade = 0
    /\ pc = "idle"
    /\ next = 1
    /\ totals = TotalsZero
    /\ aborting = FALSE
    /\ testSpec = <<>>
    /\ reporter = <<>>
    /\ events = <<>>
    /\ call = NewCallAfter("none", NoCall)
    /\ calls = called

\* After Session(): default config data, no Config yet.
Init ==
    InitWith(UniformRegistries(SmallTestCasePool),
             {<<"listenerA", "listenerB">>}, {DefaultConfigData}, 0, 1)

\* ------------------------------------------------------------------- runTests

Returned(c, code) == [c EXCEPT !.returned = TRUE, !.ret = code]

\* No runTests frame is live: its locals hold their initial values.
NoLoop ==
    /\ pc' = "idle"
    /\ next' = 1
    /\ totals' = TotalsZero
    /\ aborting' = FALSE
    /\ testSpec' = <<>>
    /\ reporter' = <<>>

\* EffectiveTestSpec without the substitution of "~[.]".
EffectiveTestSpecAsConfigured(configured) == configured

\* Lines 70-72: the TestSpec of the config, or "~[.]" when it has no filters.
EffectiveTestSpec(configured) ==
    IF ~hasFilters(configured) THEN NotHiddenSpec ELSE configured

\* What the construction of a reporter or listener (create(), lines 35 and
\* 55) may do: end normally, throw an exception derived from std::exception,
\* or throw an object of another type.
NoThrow == "none"
StdException == "std::exception"
OtherObject == "other"
CreateOutcomes == {NoThrow, StdException, OtherObject}

\* Line 250: catch( std::exception& ex ) is the only handler of runInternal.
Catches(thrown) == thrown = StdException

\* An exception thrown inside the try block of runInternal ends the call:
\* line 252 returns MaxExitCode if the handler catches it, and otherwise it
\* leaves runInternal and Session::run, which have no other handler.
Throw(c, thrown) ==
    IF Catches(thrown)
        THEN Returned([c EXCEPT !.thrown = TRUE], MaxExitCode)
        ELSE [c EXCEPT !.thrown = TRUE, !.escaped = TRUE]

\* Lines 61-72 of runTests, called from line 248 with the Config cfg: the
\* reporters are made (a name that is not registered throws, and the catch
\* at line 250 returns MaxExitCode), the listeners added, the run context
\* constructed, the group announced and the TestSpec chosen.
runTestsBegin(c, cfg) ==
    LET made == makeReporter(cfg.data.reporterNames, reporters)
        c1   == [c EXCEPT !.ranTests = TRUE]
    IN  IF made.thrown
            THEN /\ NoLoop
                 /\ events' = <<>>
                 /\ call' = Throw(c1, StdException)
            ELSE \E created \in CreateOutcomes :
                    IF created # NoThrow
                        THEN /\ NoLoop
                             /\ events' = <<>>
                             /\ call' = Throw(c1, created)
                        ELSE /\ pc' = "loop"
                             /\ next' = 1
                             /\ totals' = TotalsZero
                             /\ aborting' \in BOOLEAN
                             /\ testSpec' = EffectiveTestSpec(cfg.data.testSpec)
                             /\ reporter' = addListeners(made.reporter, listeners)
                             /\ events' = <<MakeGroupEvent("testGroupStarting",
                                                           cfg.data.name,
                                                           TotalsZero, 1, 1)>>
                             /\ call' = c1

\* ShouldRun without the test of context.aborting().
ShouldRunIgnoringAbort(testCase) == matchTest(testCase, testSpec)

\* Line 76: the condition under which the test case is run.
ShouldRun(testCase) == ~aborting /\ matchTest(testCase, testSpec)

\* RunTest with = in place of +=.
RunTestAssigns ==
    /\ pc = "loop"
    /\ next <= Len(tests)
    /\ ~aborting /\ matchTest(tests[next], testSpec)
    /\ totals' = tests[next].body
    /\ events' = Append(events, MakeEvent("runTest", m_config.data.name, next,
                                          tests[next].body, aborting))
    /\ aborting' \in BOOLEAN
    /\ next' = next + 1
    /\ UNCHANGED <<tests, registryVars, instanceVars, m_cli, m_configData,
                   m_config, configsMade, pc,
                   testSpec, reporter, call, calls>>

\* Line 77: totals += context.runTest( testCase ). Running the test case may
\* leave the run context aborting.
RunTest ==
    /\ pc = "loop"
    /\ next <= Len(tests)
    /\ ShouldRun(tests[next])
    /\ totals' = TotalsAdd(totals, tests[next].body)
    /\ events' = Append(events, MakeEvent("runTest", m_config.data.name, next,
                                          tests[next].body, aborting))
    /\ aborting' \in BOOLEAN
    /\ next' = next + 1
    /\ UNCHANGED <<tests, registryVars, instanceVars, m_cli, m_configData,
                   m_config, configsMade, pc,
                   testSpec, reporter, call, calls>>

\* SkipTest that leaves the loop, without a notification, once the context
\* is aborting.
SkipTestBreaksOnAbort ==
    /\ pc = "loop"
    /\ next <= Len(tests)
    /\ ~(~aborting /\ matchTest(tests[next], testSpec))
    /\ IF aborting
        THEN /\ events' = events
             /\ next' = Len(tests) + 1
        ELSE /\ events' = Append(events, MakeEvent("skipTest", m_config.data.name,
                                                   next, TotalsZero, aborting))
             /\ next' = next + 1
    /\ UNCHANGED <<tests, registryVars, instanceVars, m_cli, m_configData,
                   m_config, configsMade, pc,
                   totals, aborting, testSpec, reporter, call, calls>>

\* Line 79: context.reporter().skipTest( testCase ).
SkipTest ==
    /\ pc = "loop"
    /\ next <= Len(tests)
    /\ ~ShouldRun(tests[next])
    /\ events' = Append(events, MakeEvent("skipTest", m_config.data.name, next,
                                          TotalsZero, aborting))
    /\ next' = next + 1
    /\ UNCHANGED <<tests, registryVars, instanceVars, m_cli, m_configData,
                   m_config, configsMade, pc,
                   totals, aborting, testSpec, reporter, call, calls>>

\* The exit code of line 248 for the Totals that runTests returned.
ExitCodeOf(t) == StdMin(MaxExitCode, StaticCastInt(t.assertions.failed))

\* RunTestsEnd that announces the group's end with empty totals.
RunTestsEndWithoutTotals ==
    /\ pc = "loop"
    /\ next > Len(tests)
    /\ events' = Append(events, MakeGroupEvent("testGroupEnded",
                                               m_config.data.name, TotalsZero,
                                               1, 1))
    /\ call' = Returned(Moved([call EXCEPT !.ran = m_config.id], m_config),
                        ExitCodeOf(totals))
    /\ pc' = "idle"
    /\ UNCHANGED <<tests, registryVars, instanceVars, m_cli, m_configData,
                   m_config, configsMade, loopVars, calls>>

\* Lines 82-83, then line 248 and the return through run(): the group's end
\* is announced with the totals, and the failed assertions become the code.
RunTestsEnd ==
    /\ pc = "loop"
    /\ next > Len(tests)
    /\ events' = Append(events, MakeGroupEvent("testGroupEnded",
                                               m_config.data.name, totals, 1, 1))
    /\ call' = Returned(Moved([call EXCEPT !.ran = m_config.id], m_config),
                        ExitCodeOf(totals))
    /\ pc' = "idle"
    /\ UNCHANGED <<tests, registryVars, instanceVars, m_cli, m_configData,
                   m_config, configsMade, loopVars, calls>>

\* ------------------------------------------------------------------- Session

\* Line 232 with the test of libIdentify left out.
shortCircuitsOnHelpOnly(data) == data.showHelp

\* Line 232: m_configData.showHelp || m_configData.libIdentify
shortCircuits(data) == data.showHelp \/ data.libIdentify

\* Session::runInternal, entered with m_configData = data and m_config = cfg.
runInternal(c0, data, cfg) ==
    LET c == [c0 EXCEPT !.internal = TRUE,
                        !.seenHelp = shortCircuits(data)]
    IN  /\ m_configData' = data
        /\ IF shortCircuits(data)
            THEN /\ NoLoop
                 /\ events' = <<>>
                 /\ call' = Returned(c, 0)
                 /\ m_config' = cfg
                 /\ UNCHANGED <<tests, configsMade>>
            ELSE LET cfg1 == IF ~cfg.held THEN MakeConfig(configsMade + 1, data)
                                          ELSE cfg
                     c1   == Moved([c EXCEPT !.made = IF ~cfg.held THEN 1 ELSE 0,
                                             !.tagged = data.filenamesAsTags],
                                   cfg1)
                 IN  /\ m_config' = cfg1
                     /\ configsMade' = IF ~cfg.held THEN configsMade + 1
                                                    ELSE configsMade
                     /\ tests' = IF data.filenamesAsTags
                                    THEN applyFilenamesAsTags(tests)
                                    ELSE tests
                     /\ IF cfg1.data.listing
                            THEN /\ NoLoop
                                 /\ events' = <<>>
                                 /\ \E listed \in ListedCounts :
                                        call' = Returned([c1 EXCEPT !.listed = TRUE],
                                                         StaticCastInt(listed))
                            ELSE runTestsBegin(c1, cfg1)

\* Session::run(): the keypress waits change no state.
Run ==
    /\ pc = "idle"
    /\ calls < MaxCalls
    /\ sessions > 0
    /\ calls' = calls + 1
    /\ runInternal(NewCall("run"), m_configData, m_config)
    /\ UNCHANGED <<registryVars, instanceVars, m_cli>>

\* clara's parse binds the options to m_configData as it reads them, so the
\* data may have changed whether or not the parse succeeds.
ParsedDatas == ConfigDatas

\* applyCommandLine with m_config.reset() moved before the parse.
applyCommandLineResetsFirst(ok, data, cfg) ==
    [ret |-> IF ~ok THEN MaxExitCode ELSE 0, config |-> NoConfig]

\* Session::applyCommandLine( argc, argv ), when the parse ends ok or not and
\* leaves data in m_configData, with m_config = cfg: the code returned, and
\* m_config afterwards.
applyCommandLine(ok, data, cfg) ==
    IF ~ok
        THEN [ret |-> MaxExitCode, config |-> cfg]
        ELSE [ret |-> 0, config |-> NoConfig]

ApplyCommandLine ==
    /\ pc = "idle"
    /\ calls < MaxCalls
    /\ sessions > 0
    /\ calls' = calls + 1
    /\ \E ok \in BOOLEAN, data \in ParsedDatas :
        LET applied == applyCommandLine(ok, data, m_config)
        IN  /\ m_configData' = data
            /\ m_config' = applied.config
            /\ call' = Returned(Moved([NewCall("applyCommandLine")
                                        EXCEPT !.parse = IF ok THEN "ok"
                                                               ELSE "failed",
                                               !.applied = @ \/ applied.ret = 0],
                                      applied.config),
                                applied.ret)
    /\ NoLoop
    /\ events' = <<>>
    /\ UNCHANGED <<tests, registryVars, instanceVars, m_cli, configsMade>>

\* run( argc, argv ) without the look at the startup exceptions.
startupNeverFailed == FALSE

\* Line 162: !exceptions.empty()
startupFailed == exceptions # <<>>

\* Session::run( argc, argv ).
RunArgs ==
    /\ pc = "idle"
    /\ calls < MaxCalls
    /\ sessions > 0
    /\ calls' = calls + 1
    /\ IF startupFailed
        THEN /\ call' = Returned([NewCall("runArgs") EXCEPT !.startup = TRUE], 1)
             /\ NoLoop
             /\ events' = <<>>
             /\ UNCHANGED <<tests, m_configData, m_config, configsMade>>
        ELSE \E ok \in BOOLEAN, data \in ParsedDatas :
                LET applied == applyCommandLine(ok, data, m_config)
                    c == Moved([NewCall("runArgs")
                                  EXCEPT !.parse = IF ok THEN "ok" ELSE "failed",
                                         !.applied = @ \/ applied.ret = 0],
                               applied.config)
                IN  IF applied.ret = 0
                        THEN runInternal(c, data, applied.config)
                        ELSE /\ m_configData' = data
                             /\ m_config' = applied.config
                             /\ call' = Returned(c, applied.ret)
                             /\ NoLoop
                             /\ events' = <<>>
                             /\ UNCHANGED <<tests, configsMade>>
    /\ UNCHANGED <<registryVars, instanceVars, m_cli>>

\* UseConfigData without m_config.reset().
UseConfigDataKeepsConfig ==
    /\ pc = "idle"
    /\ calls < MaxCalls
    /\ sessions > 0
    /\ calls' = calls + 1
    /\ \E data \in ConfigDatas : m_configData' = data
    /\ m_config' = m_config
    /\ call' = Returned(Moved([NewCall("useConfigData") EXCEPT !.applied = FALSE],
                              m_config'), 0)
    /\ NoLoop
    /\ events' = <<>>
    /\ UNCHANGED <<tests, registryVars, instanceVars, m_cli, configsMade>>

\* Session::useConfigData( configData ).
UseConfigData ==
    /\ pc = "idle"
    /\ calls < MaxCalls
    /\ sessions > 0
    /\ calls' = calls + 1
    /\ \E data \in ConfigDatas : m_configData' = data
    /\ m_config' = NoConfig
    /\ call' = Returned(Moved([NewCall("useConfigData") EXCEPT !.applied = FALSE],
                              m_config'), 0)
    /\ NoLoop
    /\ events' = <<>>
    /\ UNCHANGED <<tests, registryVars, instanceVars, m_cli, configsMade>>

\* Session::configData(): the caller writes through the returned reference.
SetConfigData ==
    /\ pc = "idle"
    /\ calls < MaxCalls
    /\ sessions > 0
    /\ calls' = calls + 1
    /\ \E data \in ConfigDatas : m_configData' = data
    /\ call' = Returned(NewCall("configData"), 0)
    /\ NoLoop
    /\ events' = <<>>
    /\ UNCHANGED <<tests, registryVars, instanceVars, m_cli, m_config,
                   configsMade>>

\* Session::cli( newParser ).
SetCli ==
    /\ pc = "idle"
    /\ calls < MaxCalls
    /\ sessions > 0
    /\ calls' = calls + 1
    /\ \E newParser \in {DefaultParser, CustomParser} : m_cli' = newParser
    /\ call' = Returned(NewCall("cli"), 0)
    /\ NoLoop
    /\ events' = <<>>
    /\ UNCHANGED <<tests, registryVars, instanceVars, m_configData, m_config,
                   configsMade>>

\* GetConfig without the test of m_config: a new Config at every call.
GetConfigBuildsAnew ==
    /\ pc = "idle"
    /\ calls < MaxCalls
    /\ sessions > 0
    /\ calls' = calls + 1
    /\ m_config' = MakeConfig(configsMade + 1, m_configData)
    /\ configsMade' = configsMade + 1
    /\ call' = Returned(Moved([NewCall("config") EXCEPT !.made = 1],
                              m_config'), 0)
    /\ NoLoop
    /\ events' = <<>>
    /\ UNCHANGED <<tests, registryVars, instanceVars, m_cli, m_configData>>

\* Session::config().
GetConfig ==
    /\ pc = "idle"
    /\ calls < MaxCalls
    /\ sessions > 0
    /\ calls' = calls + 1
    /\ IF ~m_config.held
        THEN /\ m_config' = MakeConfig(configsMade + 1, m_configData)
             /\ configsMade' = configsMade + 1
             /\ call' = Returned(Moved([NewCall("config") EXCEPT !.made = 1],
                                       m_config'), 0)
        ELSE /\ UNCHANGED <<m_config, configsMade>>
             /\ call' = Returned(NewCall("config"), 0)
    /\ NoLoop
    /\ events' = <<>>
    /\ UNCHANGED <<tests, registryVars, instanceVars, m_cli, m_configData>>

Next ==
    \/ ApplyCommandLine
    \/ UseConfigData
    \/ SetConfigData
    \/ GetConfig
    \/ RunArgs
    \/ Run
    \/ RunTest
    \/ SkipTest
    \/ RunTestsEnd

Spec == Init /\ [][Next]_vars

\* ---------------------------------------------------- the life of a Session

MaxAttempts == 3

\* Session() without the test of alreadyInstantiated.
refusesNoInstance == FALSE

\* Line 111: if( alreadyInstantiated )
refusesInstance == alreadyInstantiated

\* Session::Session(): the internal error of line 112 ends the construction
\* with an exception, so no object comes to life; otherwise the flag is set
\* and the members hold their initial values.
Construct ==
    /\ pc = "idle"
    /\ constructed + refused < MaxAttempts
    /\ IF refusesInstance
        THEN /\ refused' = refused + 1
             /\ UNCHANGED <<alreadyInstantiated, sessions, constructed, m_cli,
                            m_configData, m_config, call>>
        ELSE /\ alreadyInstantiated' = TRUE
             /\ sessions' = sessions + 1
             /\ constructed' = constructed + 1
             /\ m_cli' = DefaultParser
             /\ m_configData' = DefaultConfigData
             /\ m_config' = NoConfig
             /\ call' = Returned(NewCallAfter("Session", NoCall), 0)
             /\ UNCHANGED refused
    /\ UNCHANGED <<tests, registryVars, configsMade, pc, loopVars, events, calls>>

\* Session::~Session(): the object is gone; the static flag stays as it is.
Destroy ==
    /\ pc = "idle"
    /\ sessions > 0
    /\ sessions' = sessions - 1
    /\ UNCHANGED <<tests, registryVars, alreadyInstantiated, constructed,
                   refused, m_cli, m_configData, m_config, configsMade, pc,
                   loopVars, events, call, calls>>

NextLife ==
    \/ Construct
    \/ Destroy
    \/ SetCli
    \/ Next

\* The process from its start: no Session has been constructed, nothing went
\* wrong at startup, both reporters are registered, and the registered test
\* cases are alike.
InitLife ==
    /\ InitWith(Registries({MakeTestCase(<<FastTag>>, FileInDir, FailingRun)}),
                {<<"listenerA", "listenerB">>}, {DefaultConfigData}, 0, 0)
    /\ exceptions = <<>>
    /\ reporters = {"console", "xml"}

SpecLife == InitLife /\ [][NextLife]_vars

\* One operation on a session whose config data has been set, over every
\* registry of the larger pool, with nothing wrong at startup.
InitRun ==
    /\ InitWith(Registries(TestCasePool), ListenerRegistries, ConfigDatas,
                MaxCalls - 1, 1)
    /\ exceptions = <<>>

SpecRun == InitRun /\ [][Next]_vars

\* ------------------------------------------- a session that holds a Config

\* After Session(), useConfigData( data ) and config(): the session holds the
\* Config built from its config data. Nothing went wrong at startup, and
\* both reporters are registered.
InitCached ==
    /\ tests \in UniformRegistries(SmallTestCasePool)
    /\ exceptions = <<>>
    /\ reporters = {"console", "xml"}
    /\ listeners = <<"listenerA", "listenerB">>
    /\ alreadyInstantiated = TRUE
    /\ sessions = 1
    /\ constructed = 1
    /\ refused = 0
    /\ m_cli = DefaultParser
    /\ m_configData \in ConfigDatas
    /\ m_config = MakeConfig(1, m_configData)
    /\ configsMade = 1
    /\ pc = "idle"
    /\ next = 1
    /\ totals = TotalsZero
    /\ aborting = FALSE
    /\ testSpec = <<>>
    /\ reporter = <<>>
    /\ events = <<>>
    /\ call = Returned([NewCallAfter("config", NoCall)
                            EXCEPT !.made = 1,
                                   !.configWas = NoConfig,
                                   !.configsWere = 0,
                                   !.path = <<Unconfigured, ConfigBuilt>>], 0)
    /\ calls = 0

SpecCached == InitCached /\ [][Next]_vars

\* ------------------------------------------------------ every short file path

MaxPathLen == 4

PathChars == {"M", "/", "\\", "."}

\* Every string of at most n of these characters.
Paths(n) == UNION {[1..m -> PathChars] : m \in 0..n}

\* The tags of the k-th registered test case.
TagsAt(k) ==
    IF k = 1 THEN <<FastTag>>
    ELSE IF k = 2 THEN <<>>
    ELSE <<HiddenTag, FastTag>>

\* One operation on a session whose config data asks for the file names as
\* tags, over registries whose test cases all come from one file, for every
\* short path of that file.
InitTags ==
    /\ InitWith({[k \in 1..NumTests |-> MakeTestCase(TagsAt(k), file, PassingRun)]
                    : file \in Paths(MaxPathLen)},
                {<<>>}, {data \in ConfigDatas : data.filenamesAsTags},
                MaxCalls - 1, 1)
    /\ exceptions = <<>>
    /\ reporters = {"console", "xml"}

SpecTags == InitTags /\ [][Next]_vars

\* ------------------------------------------------------------ the run's log

\* The positions in events of the notifications `kinds` about test case k.
Notified(kinds, k) ==
    {j \in 1..Len(events) : events[j].ev \in kinds /\ events[j].idx = k}

Executed(k) == Notified({"runTest"}, k)
Skipped(k) == Notified({"skipTest"}, k)

\* runTests has returned normally in the current call.
LoopCompleted ==
    /\ pc = "idle"
    /\ call.ranTests
    /\ ~call.thrown

\* What context.aborting() answered when test case k was reached.
AbortingAt(k) == \E j \in Notified({"runTest", "skipTest"}, k) : events[j].aborting

IsHidden(testCase) == HiddenTag \in SeqRange(testCase.tags)

\* ------------------------------------------------------------------- claims

\* C1: in runTests every registered test case gets exactly one notification,
\* runTest or skipTest, never both and never none: while the loop is at
\* position next, the cases before it have exactly one and the others none;
\* when runTests has returned, every case has exactly one.
C1_ExactlyOneNotification ==
    /\ pc = "loop" =>
        \A k \in 1..Len(tests) :
            Cardinality(Executed(k)) + Cardinality(Skipped(k))
                = IF k < next THEN 1 ELSE 0
    /\ LoopCompleted =>
        \A k \in 1..Len(tests) :
            Cardinality(Executed(k)) + Cardinality(Skipped(k)) = 1

\* C1 witness: a completed loop that ran one case, skipped one on the filter
\* and skipped a matching one because the context was aborting.
C1_Witness ==
    /\ LoopCompleted
    /\ \E k \in 1..Len(tests) : Executed(k) # {}
    /\ \E k \in 1..Len(tests) :
        Skipped(k) # {} /\ ~AbortingAt(k) /\ ~matchTest(tests[k], testSpec)
    /\ \E k \in 1..Len(tests) :
        Skipped(k) # {} /\ AbortingAt(k) /\ matchTest(tests[k], testSpec)

\* The sum of the Totals of the test cases at the positions `ran`, merged
\* from the first on ((a + b) + c) and from the last on (a + (b + c)).
RECURSIVE MergeFromLeft(_, _, _)
MergeFromLeft(acc, ran, k) ==
    IF k > Len(tests)
        THEN acc
        ELSE MergeFromLeft(IF k \in ran THEN TotalsAdd(acc, tests[k].body) ELSE acc,
                           ran, k + 1)

RECURSIVE MergeFromRight(_, _)
MergeFromRight(ran, k) ==
    IF k > Len(tests)
        THEN TotalsZero
        ELSE IF k \in ran
                THEN TotalsAdd(tests[k].body, MergeFromRight(ran, k + 1))
                ELSE MergeFromRight(ran, k + 1)

ExecutedCases == {k \in 1..Len(tests) : Executed(k) # {}}

\* The context started aborting after the k-th case and stayed so.
AbortedAfter(k) ==
    /\ \A j \in 1..k : ~AbortingAt(j)
    /\ \A j \in (k + 1)..Len(tests) : AbortingAt(j)

\* C2: when the context starts aborting after the k-th of the n cases, the
\* cases k+1..n are all skipped and none of them is executed, and the
\* Totals returned are the sum over the executed cases among 1..k.
C2_AbortSkipsTheRest ==
    LoopCompleted =>
        \A k \in 0..(Len(tests) - 1) :
            AbortedAfter(k) =>
                /\ \A j \in (k + 1)..Len(tests) :
                    Cardinality(Skipped(j)) = 1 /\ Executed(j) = {}
                /\ totals = MergeFromLeft(TotalsZero, ExecutedCases \cap (1..k), 1)

\* C2 witness: the context starts aborting after the 2nd case, both were
\* executed, and a later case that matches the filter was reached.
C2_Witness ==
    /\ LoopCompleted
    /\ AbortedAfter(2)
    /\ Executed(1) # {}
    /\ Executed(2) # {}
    /\ \E j \in 3..Len(tests) : matchTest(tests[j], testSpec)

\* C3: the Totals that runTests returns, which are the ones it passes to
\* testGroupEnded, are the merge of the Totals of exactly the executed
\* cases, whichever way the merges are grouped.
C3_TotalsAreTheFold ==
    LoopCompleted =>
        /\ totals = MergeFromLeft(TotalsZero, ExecutedCases, 1)
        /\ totals = MergeFromRight(ExecutedCases, 1)
        /\ events[Len(events)].ev = "testGroupEnded"
        /\ events[Len(events)].totals = totals

\* C3 witness: two cases were executed, one was skipped, and failures were
\* counted.
C3_Witness ==
    /\ LoopCompleted
    /\ Cardinality(ExecutedCases) >= 2
    /\ \E k \in 1..Len(tests) : Skipped(k) # {}
    /\ totals.assertions.failed # U64Zero
    /\ totals.assertions.passed # U64Zero

\* C4, as claimed: with no filter clauses in the Config's TestSpec, every
\* case without the hidden tag is executed exactly once and every hidden
\* one is skipped exactly once.
C4_NoFilterRunsAllVisible ==
    (LoopCompleted /\ ~hasFilters(m_config.data.testSpec)) =>
        \A k \in 1..Len(tests) :
            IF IsHidden(tests[k])
                THEN Cardinality(Skipped(k)) = 1 /\ Executed(k) = {}
                ELSE Cardinality(Executed(k)) = 1 /\ Skipped(k) = {}

\* C4, amended: with no filter clauses the "exclude hidden" TestSpec is
\* used; every case without the hidden tag that is reached while the
\* context is not aborting is executed exactly once, and every hidden case
\* and every case reached while the context is aborting is skipped exactly
\* once; no case is both executed and skipped.
C4_NoFilterRunsVisibleUnlessAborting ==
    (LoopCompleted /\ ~hasFilters(m_config.data.testSpec)) =>
        /\ testSpec = NotHiddenSpec
        /\ \A k \in 1..Len(tests) :
            IF IsHidden(tests[k]) \/ AbortingAt(k)
                THEN Cardinality(Skipped(k)) = 1 /\ Executed(k) = {}
                ELSE Cardinality(Executed(k)) = 1 /\ Skipped(k) = {}

\* C4 witness: no filter clauses, a visible case executed and a hidden case
\* skipped while the context was not aborting.
C4_Witness ==
    /\ LoopCompleted
    /\ ~hasFilters(m_config.data.testSpec)
    /\ \E k \in 1..Len(tests) : ~IsHidden(tests[k]) /\ Executed(k) # {}
    /\ \E k \in 1..Len(tests) :
        IsHidden(tests[k]) /\ Skipped(k) # {} /\ ~AbortingAt(k)

\* min( 255, f ) for a std::size_t f.
CappedCount(f) ==
    IF f[2] = 0 /\ f[3] = 0 /\ f[4] = 0 /\ f[1] < MaxExitCode
        THEN f[1]
        ELSE MaxExitCode

\* C5: when the run loop is invoked, the exit code is min(255, f), f being
\* the failed-assertion count of the Totals that runTests returned.
C5_ExitCodeIsCappedFailures ==
    LoopCompleted => call.ret = CappedCount(totals.assertions.failed)

\* C6: every exit code that applyCommandLine, run( argc, argv ) and run()
\* return lies in 0..255.
C6_ExitCodeInRange ==
    (call.returned /\ call.op \in {"applyCommandLine", "runArgs", "run"}) =>
        call.ret \in 0..MaxExitCode

\* C7: when the parser reports failure, applyCommandLine returns 255,
\* constructs no Config and leaves m_config as it was, and run( argc, argv )
\* returns the 255 without entering runInternal: no test case is executed
\* or skipped and the registry is as it was.
C7_ParseFailureRunsNothing ==
    (call.returned /\ call.parse = "failed") =>
        /\ call.ret = MaxExitCode
        /\ call.made = 0
        /\ m_config = call.configWas
        /\ ~call.internal
        /\ ~call.ranTests
        /\ events = <<>>
        /\ tests = call.testsWere

\* C7 witness: run( argc, argv ) has returned on a parse failure in a
\* session that held a Config.
C7_Witness ==
    /\ call.returned
    /\ call.op = "runArgs"
    /\ call.parse = "failed"
    /\ call.configWas.held

\* The names makeReporter looks up for the Config cfg.
RequestedReporters(cfg) ==
    IF cfg.data.reporterNames = <<>>
        THEN <<DefaultReporter>>
        ELSE cfg.data.reporterNames

SomeReporterNotRegistered(cfg) ==
    \E k \in 1..Len(RequestedReporters(cfg)) :
        RequestedReporters(cfg)[k] \notin reporters

\* A run()/run( argc, argv ) has returned after runInternal went past the
\* help and identify flags, so with the Config m_config.
RanWithConfig ==
    /\ call.returned
    /\ call.internal
    /\ ~call.seenHelp

C9_StartupFailureReturns1 ==
    (call.returned /\ call.op = "runArgs" /\ exceptions # <<>>) =>
        /\ call.ret = 1
        /\ call.parse = "none"
        /\ m_configData = call.dataWas
        /\ m_config = call.configWas
        /\ call.made = 0
        /\ ~call.internal
        /\ events = <<>>
        /\ tests = call.testsWere

\* C9 witness: run( argc, argv ) has returned with a startup exception
\* recorded.
C9_Witness ==
    /\ call.returned
    /\ call.op = "runArgs"
    /\ call.startup
    /\ exceptions # <<>>

C11_EveryFailureBecomes255 ==
    (call.op \in {"run", "runArgs"} /\ call.thrown) =>
        /\ ~call.escaped
        /\ call.returned
        /\ call.ret = MaxExitCode

\* C12: at most one Session is ever constructed in a process: the first
\* construction succeeds and every later attempt fails, so no two Session
\* objects are alive at once, whether or not the first has been destroyed.
C12_OnlyOneSessionEver ==
    /\ constructed <= 1
    /\ sessions <= 1
    /\ (constructed + refused >= 1) => constructed = 1
    /\ alreadyInstantiated <=> (constructed = 1)

\* C12 witness: the first construction succeeded, the session was used and
\* destroyed, and two later constructions were refused.
C12_Witness ==
    /\ constructed = 1
    /\ sessions = 0
    /\ refused = 2
    /\ calls > 0

\* The position of a lifecycle state in the order of the states.
Rank(state) == CHOOSE i \in 1..Len(LifecycleOrder) : LifecycleOrder[i] = state

\* The lifecycle state the session is in.
LifecycleNow == call.path[Len(call.path)]

\* C13 as stated: every move of the lifecycle goes one state forward, except
\* that useConfigData, and no other operation, moves backward, to
\* Unconfigured, leaving the CLI parser as it was.
C13_ForwardOneStepOrUseConfigData ==
    /\ \A i \in 1..(Len(call.path) - 1) :
        \/ Rank(call.path[i + 1]) = Rank(call.path[i]) + 1
        \/ /\ call.op = "useConfigData"
           /\ call.path[i + 1] = Unconfigured
    /\ call.op = "useConfigData" =>
        (LifecycleNow = Unconfigured /\ m_cli = call.cliWas)

\* C13, amended: a move of the lifecycle goes one state forward, or from
\* Unconfigured straight to ConfigBuilt when config() or run() builds the
\* Config of a session no command line was applied to, or backward in one of
\* two operations: useConfigData, which ends in Unconfigured, and a successful
\* applyCommandLine (alone or inside run( argc, argv )), which drops the
\* Config and ends in CommandLineApplied. Both leave m_cli as it was.
C13_ForwardOrResetByDataOrCommandLine ==
    /\ \A i \in 1..(Len(call.path) - 1) :
        \/ Rank(call.path[i + 1]) = Rank(call.path[i]) + 1
        \/ /\ call.op \in {"config", "run"}
           /\ call.path[i] = Unconfigured
           /\ call.path[i + 1] = ConfigBuilt
        \/ /\ call.op = "useConfigData"
           /\ call.path[i + 1] = Unconfigured
        \/ /\ call.op \in {"applyCommandLine", "runArgs"}
           /\ call.parse = "ok"
           /\ i = 1
           /\ call.path[i] \in {ConfigBuilt, WasExecuted}
           /\ call.path[i + 1] = CommandLineApplied
    /\ call.op = "useConfigData" =>
        (LifecycleNow = Unconfigured /\ m_cli = call.cliWas)
    /\ (call.op = "applyCommandLine" /\ call.parse = "ok") =>
        (LifecycleNow = CommandLineApplied /\ m_cli = call.cliWas)

\* C13 witness: run( argc, argv ) on a session that has been run goes back
\* to CommandLineApplied and forward again, state by state, to Executed.
C13_Witness ==
    /\ call.op = "runArgs"
    /\ call.path = <<WasExecuted, CommandLineApplied, ConfigBuilt, WasExecuted>>

\* stem is what is left of file after everything up to its last '/' or '\\'
\* is dropped and then everything from the last '.' on.
IsStemOf(stem, file) ==
    \E i \in 0..Len(file), j \in 0..Len(file) :
        /\ i = 0 \/ file[i] \in {"/", "\\"}
        /\ \A k \in (i + 1)..Len(file) : file[k] \notin {"/", "\\"}
        /\ i <= j
        /\ \/ j = Len(file) /\ \A k \in (i + 1)..Len(file) : file[k] # "."
           \/ /\ j < Len(file)
              /\ file[j + 1] = "."
              /\ \A k \in (j + 2)..Len(file) : file[k] # "."
        /\ stem = SubSeq(file, i + 1, j)

\* The claim's two paths, and the tag they are to give.
PathMyTestsInDirs ==
    <<"a", "/", "b", "/", "M", "y", "T", "e", "s", "t", "s", ".", "c", "p", "p">>
PathMyTests == <<"M", "y", "T", "e", "s", "t", "s", ".", "c", "p", "p">>
TagMyTests == <<"#", "M", "y", "T", "e", "s", "t", "s">>

\* C14: applyFilenamesAsTags gives every registered test case exactly one new
\* tag, '#' followed by the stem of its file path, after the tags it had,
\* which stay as they were and in their order; a/b/MyTests.cpp and
\* MyTests.cpp both give #MyTests.
C14_AppendsFilenameTag ==
    /\ call.tagged =>
        \A k \in 1..Len(tests) :
            /\ Len(tests[k].tags) = Len(call.testsWere[k].tags) + 1
            /\ SubSeq(tests[k].tags, 1, Len(call.testsWere[k].tags))
                    = call.testsWere[k].tags
            /\ \E stem \in Paths(Len(tests[k].file)) :
                    /\ IsStemOf(stem, tests[k].file)
                    /\ tests[k].tags[Len(tests[k].tags)] = <<"#">> \o stem
            /\ tests[k].file = call.testsWere[k].file
            /\ tests[k].body = call.testsWere[k].body
    /\ TagWithFilename(MakeTestCase(<<FastTag>>, PathMyTestsInDirs, PassingRun)).tags
            = <<FastTag, TagMyTests>>
    /\ TagWithFilename(MakeTestCase(<<>>, PathMyTests, PassingRun)).tags
            = <<TagMyTests>>

\* C14 witness: the tagger has run over test cases whose file has a '.' in
\* its directory and an extension after its name; they got #M after the
\* tags they had.
C14_Witness ==
    /\ call.tagged
    /\ tests[1].file = <<".", "/", "M", ".">>
    /\ call.testsWere[1].tags = <<FastTag>>
    /\ tests[1].tags = <<FastTag, <<"#", "M">> >>
    /\ tests[2].tags = << <<"#", "M">> >>

\* C15: the composite that makeReporter and addListeners build holds the
\* requested reporters in request order, or the one default reporter when
\* none is requested, and after them each registered listener once, in
\* registration order; no listener takes the place of a reporter.
C15_ReportersThenListeners ==
    pc = "loop" =>
        LET names   == m_config.data.reporterNames
            primary == IF Len(names) = 0 THEN 1 ELSE Len(names)
        IN  /\ Len(reporter) = primary + Len(listeners)
            /\ Len(names) = 0 => reporter[1] = DefaultReporter
            /\ \A i \in 1..Len(names) : reporter[i] = names[i]
            /\ \A j \in 1..Len(listeners) : reporter[primary + j] = listeners[j]
            /\ \A j \in 1..Len(listeners) :
                    Cardinality({i \in 1..Len(reporter) : reporter[i] = listeners[j]})
                        = 1

\* C15 witness: two requested reporters and two listeners.
C15_Witness ==
    /\ pc = "loop"
    /\ m_config.data.reporterNames = <<"xml", "console">>
    /\ reporter = <<"xml", "console", "listenerA", "listenerB">>

\* How many of the tags of testCase are the tag of its file name.
FilenameTagCount(testCase) ==
    Cardinality({i \in 1..Len(testCase.tags) :
                    testCase.tags[i] = <<"#">> \o FilenameStem(testCase.file)})

\* C16: over every sequence of operations on a session, run more than once
\* or not, the filename tagger changes the registry once at most: no test
\* case carries the tag of its file name more than once.
C16_FilenameTagAtMostOnce ==
    \A k \in 1..Len(tests) : FilenameTagCount(tests[k]) <= 1

\* The operation in progress or last completed needed the Config: config()
\* always does, and run() or run( argc, argv ) once runInternal is past the
\* help and identify flags.
NeededConfig ==
    \/ call.op = "config"
    \/ call.internal /\ ~call.seenHelp

\* The operation dropped the Config: useConfigData, or a command line that
\* was applied with success.
Invalidated ==
    \/ call.op = "useConfigData"
    \/ call.op \in {"applyCommandLine", "runArgs"} /\ call.parse = "ok"

\* C17: the Config is built when it is first needed and once at most until
\* it is invalidated: config() and run() called on a session that holds a
\* Config use that very object and build none; after useConfigData or a
\* successful applyCommandLine no Config is held, and the next operation that
\* needs one builds a new object from the config data stored then.
C17_ConfigBuiltLazilyOnce ==
    /\ m_config.held => m_config.id \in 1..configsMade
    /\ configsMade = call.configsWere + call.made
    /\ (call.op \in {"config", "run"} /\ call.configWas.held) =>
        (m_config = call.configWas /\ call.made = 0)
    /\ (call.op \in {"useConfigData", "applyCommandLine"} /\ Invalidated) =>
        (~m_config.held /\ call.made = 0)
    /\ (NeededConfig /\ (Invalidated \/ ~call.configWas.held)) =>
        /\ call.made = 1
        /\ m_config = MakeConfig(call.configsWere + 1, m_configData)
    /\ ~NeededConfig => call.made = 0

\* C17 witness: run() in its loop with the Config that an earlier config()
\* built.
C17_Witness ==
    /\ call.op = "run"
    /\ pc = "loop"
    /\ call.configWas.held
    /\ m_config = call.configWas
    /\ configsMade = 1

\* C18: a run of runTests that reaches the loop sends testGroupStarting
\* (config name, 1, 1) once and first, then one runTest or skipTest per test
\* case in the sorted order, then testGroupEnded (config name, totals, 1, 1)
\* once and last, with the Totals that runTests returns; nothing comes
\* before the start of the group or after its end.
C18_GroupEventsInOrder ==
    (call.ranTests /\ ~call.thrown) =>
        LET done == IF pc = "loop" THEN next - 1 ELSE Len(tests)
        IN  /\ Len(events) = 1 + done + (IF pc = "loop" THEN 0 ELSE 1)
            /\ events[1] = MakeGroupEvent("testGroupStarting", m_config.data.name,
                                          TotalsZero, 1, 1)
            /\ \A k \in 1..done :
                    /\ events[k + 1].ev \in {"runTest", "skipTest"}
                    /\ events[k + 1].idx = k
            /\ pc = "idle" =>
                    /\ events[Len(events)].ev = "testGroupEnded"
                    /\ events[Len(events)].name = m_config.data.name
                    /\ events[Len(events)].totals = totals
                    /\ events[Len(events)].groupIndex = 1
                    /\ events[Len(events)].groupsCount = 1
                    /\ call.returned
                    /\ call.ret = ExitCodeOf(events[Len(events)].totals)

\* C18 witness: a completed run that ran a test case with failures and
\* skipped another.
C18_Witness ==
    /\ LoopCompleted
    /\ Len(events) = NumTests + 2
    /\ events[Len(events)].totals # TotalsZero
    /\ \E k \in 1..Len(tests) : Executed(k) # {}
    /\ \E k \in 1..Len(tests) : Skipped(k) # {}

\* C19: when startup failures have been recorded, no entry point runs a test
\* case: run( argc, argv ) and run() both return a failure code and neither
\* enters the run loop.
C19_StartupFailureRunsNothing ==
    (exceptions # <<>> /\ call.op \in {"run", "runArgs"}) =>
        /\ pc # "loop"
        /\ ~call.ranTests
        /\ events = <<>>
        /\ call.returned => call.ret # 0

\* C20: when runInternal decides what to do, the Config the session holds
\* agrees with its config data: the flags that runInternal and run() read
\* from m_configData and the settings that runTests reads from the Config
\* are those of one snapshot.
C20_ConfigAgreesWithConfigData ==
    (call.internal /\ m_config.held) => m_config.data = m_configData

====
